---- MODULE Spec2Model ----
(***************************************************************************)
(* Model of mllam_data_prep/derived_variables.py: derive_variables and its *)
(* helpers (_chunk_dataset, _get_derived_variable_function, _check_field,  *)
(* _check_attributes, _return_dropped_coordinates) as a state machine.     *)
(*                                                                         *)
(* A Python dict whose keys vary is a TLA+ function with a varying domain; *)
(* a dict over the two attribute names is a total function whose value     *)
(* Absent stands for "key not in dict".  Python's None is the value None.  *)
(* A dotted name "a.b.c" is the sequence <<"a","b","c">> of its parts.     *)
(***************************************************************************)
EXTENDS Integers, Sequences, FiniteSets, TLC

\* ------------------------------------------------------------------ bounds
\* Longest list of derived-variable specs handed to derive_variables.
MaxSpecs == 3

\* ------------------------------------------------------- values and errors
Absent == "<absent>"
None == "<None>"
AttrNames == <<"units", "long_name">>
AttrSet == {AttrNames[k] : k \in 1..Len(AttrNames)}
NoAttrs == [a \in AttrSet |-> Absent]

\* An exception: its Python type, the function that raises it, what it names.
NoError == [exc |-> "", site |-> "", subject |-> <<>>]
Raise(exc, site, subject) == [exc |-> exc, site |-> site, subject |-> subject]

\* dict helpers
EmptyMap == [k \in {} |-> Absent]
Put(m, k, v) == [n \in DOMAIN m \cup {k} |-> IF n = k THEN v ELSE m[n]]
Get(m, k, default) == IF k \in DOMAIN m THEN m[k] ELSE default
Range(s) == {s[k] : k \in DOMAIN s}

\* xr.DataArray as returned by a derivation function
DataArray(name, units, long_name, data) ==
    [kind |-> "DataArray", name |-> name,
     attrs |-> [a \in AttrSet |-> IF a = "units" THEN units ELSE long_name],
     data |-> data]
TupleOf(items) == [kind |-> "tuple", items |-> items]
Other(type) == [kind |-> type]
IsDataArray(v) == v.kind = "DataArray"

\* ---------------------------------------------------------- input dataset
\* ds: dimensions time and x; time is an indexed dimension coordinate, lat,
\* lon and orography are coordinates on x, t2m is a data variable.
DsSizes == [time |-> 3, x |-> 2]
DsVariable(dims, role, indexed, itemsize, values) ==
    [dims |-> dims, role |-> role, indexed |-> indexed, itemsize |-> itemsize,
     values |-> values, nonnull |-> TRUE, chunks |-> EmptyMap]
Ds ==
    [sizes |-> DsSizes,
     attrs |-> "ds.attrs",
     vars |-> [n \in {"time", "lat", "lon", "orography", "t2m"} |->
        CASE n = "time" -> DsVariable({"time"}, "coord", TRUE, 8, "ds.time")
          [] n = "lat" -> DsVariable({"x"}, "coord", FALSE, 8, "ds.lat")
          [] n = "lon" -> DsVariable({"x"}, "coord", FALSE, 8, "ds.lon")
          [] n = "orography" ->
               DsVariable({"x"}, "coord", FALSE, 8, "ds.orography")
          [] n = "t2m" -> DsVariable({"time", "x"}, "data", FALSE, 4, "ds.t2m")]]

Coords(d) == {n \in DOMAIN d.vars : d.vars[n].role = "coord"}
DataVars(d) == {n \in DOMAIN d.vars : d.vars[n].role = "data"}
Dims(d) == UNION {d.vars[n].dims : n \in DOMAIN d.vars}

\* ds[names]: the listed variables plus every coordinate whose dimensions
\* all belong to the listed variables; sizes restricted to the dims kept.
Subset(d, names) ==
    LET needed == UNION {d.vars[n].dims : n \in names}
        kept == names \cup {c \in Coords(d) : d.vars[c].dims \subseteq needed}
        dims == UNION {d.vars[n].dims : n \in kept}
    IN [sizes |-> [dm \in dims |-> d.sizes[dm]],
        attrs |-> d.attrs,
        vars |-> [n \in kept |-> d.vars[n]]]

\* int(ds_input[dim].count()): the number of non-null entries of the
\* dimension's coordinate (of a default range index when it has none).
Count(d, dim) ==
    IF dim \in DOMAIN d.vars /\ ~d.vars[dim].nonnull THEN d.sizes[dim] - 1
    ELSE d.sizes[dim]

\* ------------------------------------------------- derivation functions
\* globals()["__name__"] of the module
CallingModule == <<"mllam_data_prep", "derived_variables">>
\* The derivation functions defined in the module (what globals().get finds).
GlobalFunctions ==
    {"calculate_toa_radiation", "calculate_hour_of_day", "calculate_day_of_year"}
\* Importable modules outside the engine and the functions each defines.
ExternalModule == <<"my_pkg", "funcs">>
ExternalFunctions ==
    {"fn_named", "fn_list", "fn_float", "fn_mixed", "fn_field", "fn_twins",
     "format"}
Importable == {ExternalModule}
\* Attributes every str object has (getattr on a module *name*).
StrMethods == {"format", "join"}

Function(module, name) == [kind |-> "function", module |-> module, name |-> name]
NonePy == [kind |-> "NoneType", module |-> <<>>, name |-> ""]
StrMethod(self, name) == [kind |-> "str_method", module |-> self, name |-> name]
Callable(f) == f.kind \in {"function", "str_method"}

Prefixes(path) == {SubSeq(path, 1, k) : k \in 1..Len(path)}

\* globals().get(name)
GlobalsGet(name) ==
    IF name \in GlobalFunctions THEN Function(CallingModule, name) ELSE NonePy

\* _get_derived_variable_function(function_namespace) with sys.modules = mods:
\* the function returned (or the exception raised) and sys.modules afterwards.
GetDerivedVariableFunction(function_namespace, mods) ==
    LET n == Len(function_namespace)
        module_name == SubSeq(function_namespace, 1, n - 1)
        function_name == function_namespace[n]
        site == "_get_derived_variable_function"
    IN IF n > 1
       THEN IF module_name = CallingModule
            THEN [function |-> GlobalsGet(function_name), err |-> NoError,
                  sys_modules |-> mods]
            ELSE IF module_name \in mods
            THEN \* module = module_name: the name (a str), not the module
                 IF function_name \in StrMethods
                 THEN [function |-> StrMethod(module_name, function_name),
                       err |-> NoError, sys_modules |-> mods]
                 ELSE [function |-> NonePy,
                       err |-> Raise("AttributeError", site, function_namespace),
                       sys_modules |-> mods]
            ELSE IF module_name \notin Importable
            THEN [function |-> NonePy,
                  err |-> Raise("ModuleNotFoundError", site, function_namespace),
                  sys_modules |-> mods]
            ELSE IF function_name \in ExternalFunctions
            THEN [function |-> Function(module_name, function_name),
                  err |-> NoError,
                  sys_modules |-> mods \cup Prefixes(module_name)]
            ELSE [function |-> NonePy,
                  err |-> Raise("AttributeError", site, function_namespace),
                  sys_modules |-> mods \cup Prefixes(module_name)]
       ELSE IF GlobalsGet(function_name) = NonePy
            THEN [function |-> NonePy,
                  err |-> Raise("TypeError", site, function_namespace),
                  sys_modules |-> mods]
            ELSE [function |-> GlobalsGet(function_name), err |-> NoError,
                  sys_modules |-> mods]

\* Parameters of each derivation function.
Params(f) ==
    IF f.name = "calculate_toa_radiation" THEN {"lat", "lon", "time"}
    ELSE IF f.name = "fn_field" THEN {"time", "field"}
    ELSE {"time"}

\* What the array computed from kwargs holds: the function and its inputs.
Computed(f, part, kwargs) ==
    [fn |-> f.name, part |-> part,
     args |-> [p \in DOMAIN kwargs |-> kwargs[p].values],
     chunks |-> [p \in DOMAIN kwargs |-> kwargs[p].chunks]]

\* The value a derivation function returns for DataArray arguments.
Returns(f, kwargs) ==
    CASE f.name = "calculate_toa_radiation" ->
           DataArray("toa_radiation", "W*m**-2",
                     "top-of-the-atmosphere radiation", Computed(f, "", kwargs))
      [] f.name = "calculate_hour_of_day" ->
           TupleOf(<<DataArray("hour_of_day_cos", "1",
                        "Cosine component of cyclically encoded hour of day",
                        Computed(f, "cos", kwargs)),
                     DataArray("hour_of_day_sin", "1",
                        "Sine component of cyclically encoded hour of day",
                        Computed(f, "sin", kwargs))>>)
      [] f.name = "calculate_day_of_year" ->
           TupleOf(<<DataArray("day_of_year_cos", "1",
                        "Cosine component of cyclically encoded day of year",
                        Computed(f, "cos", kwargs)),
                     DataArray("day_of_year_sin", "1",
                        "Sine component of cyclically encoded day of year",
                        Computed(f, "sin", kwargs))>>)
      [] f.name = "fn_named" ->
           DataArray("ext_var", Absent, Absent, Computed(f, "", kwargs))
      [] f.name = "fn_mixed" ->
           TupleOf(<<DataArray("ext_var", Absent, Absent,
                               Computed(f, "", kwargs)),
                     Other("float")>>)
      [] f.name = "fn_field" ->
           DataArray("ext_var", Absent, Absent, Computed(f, "", kwargs))
      [] f.name = "fn_twins" ->
           TupleOf(<<DataArray("ext_var", "K", "first", Computed(f, "a", kwargs)),
                     DataArray("ext_var", "K", "second",
                               Computed(f, "b", kwargs))>>)
      [] f.name = "fn_list" -> Other("list")
      [] f.name = "fn_float" -> Other("float")
      [] OTHER -> Other("NoneType")

\* func(**kwargs): the value returned, or the TypeError of a call that
\* cannot be made (None is not callable, arguments do not fit the signature).
Invoke(func, kwargs) ==
    CASE func.kind = "NoneType" ->
           [value |-> Other("NoneType"),
            err |-> Raise("TypeError", "derive_variables", <<"not callable">>)]
      [] func.kind = "str_method" ->
           IF func.name = "format"
           THEN [value |-> Other("str"), err |-> NoError]
           ELSE [value |-> Other("NoneType"),
                 err |-> Raise("TypeError", func.name, <<"keyword arguments">>)]
      [] OTHER ->
           IF DOMAIN kwargs = Params(func)
           THEN [value |-> Returns(func, kwargs), err |-> NoError]
           ELSE [value |-> Other("NoneType"),
                 err |-> Raise("TypeError", func.name, <<"arguments">>)]

\* ---------------------------------------------------- attribute checking
OverwriteWarning(attribute, name, old, new) ==
    [kind |-> "overwrite", attribute |-> attribute, name |-> name,
     old |-> old, new |-> new]

\* _check_attributes(field, field_attributes), the loop from its k-th
\* attribute on: the field as left by the loop, the exception raised (the
\* loop stops there), and the warnings logged.
RECURSIVE CheckAttributesFrom(_, _, _, _)
CheckAttributesFrom(field, field_attributes, k, warned) ==
    IF k > Len(AttrNames)
    THEN [field |-> field, err |-> NoError, warnings |-> warned]
    ELSE LET attribute == AttrNames[k]
             overwritten == [field EXCEPT !.attrs[attribute] =
                                            field_attributes[attribute]]
         IN IF field.attrs[attribute] = Absent \/ field.attrs[attribute] = None
            THEN IF field_attributes[attribute] # Absent
                 THEN CheckAttributesFrom(overwritten, field_attributes,
                                          k + 1, warned)
                 ELSE [field |-> field,
                       err |-> Raise("ValueError", "_check_attributes",
                                     <<attribute, field.name>>),
                       warnings |-> warned]
            ELSE IF field_attributes[attribute] # Absent
                 THEN CheckAttributesFrom(overwritten, field_attributes, k + 1,
                        warned \cup {OverwriteWarning(attribute, field.name,
                                        field.attrs[attribute],
                                        field_attributes[attribute])})
                 ELSE CheckAttributesFrom(field, field_attributes, k + 1, warned)

RECURSIVE KeepExistingFrom(_, _, _)
\* Mutant: the attributes section fills in what is missing but never
\* replaces a value the computation set.
KeepExistingFrom(field, field_attributes, k) ==
    IF k > Len(AttrNames)
    THEN [field |-> field, err |-> NoError, warnings |-> {}]
    ELSE LET attribute == AttrNames[k]
         IN IF field.attrs[attribute] = Absent \/ field.attrs[attribute] = None
            THEN IF field_attributes[attribute] # Absent
                 THEN KeepExistingFrom(
                        [field EXCEPT !.attrs[attribute] =
                                        field_attributes[attribute]],
                        field_attributes, k + 1)
                 ELSE [field |-> field,
                       err |-> Raise("ValueError", "_check_attributes",
                                     <<attribute, field.name>>),
                       warnings |-> {}]
            ELSE KeepExistingFrom(field, field_attributes, k + 1)
CheckAttributesKeepExisting(field, field_attributes) ==
    KeepExistingFrom(field, field_attributes, 1)

CheckAttributes(field, field_attributes) ==
    CheckAttributesFrom(field, field_attributes, 1, {})

\* The loop of _check_field over a tuple's fields, from the k-th on; each
\* field's attrs are changed in place, so the tuple holds the checked fields.
RECURSIVE CheckFieldsFrom(_, _, _, _)
CheckFieldsFrom(items, field_attributes, k, warned) ==
    IF k > Len(items)
    THEN [field |-> TupleOf(items), err |-> NoError, warnings |-> warned]
    ELSE LET r == CheckAttributes(items[k], field_attributes)
             checked == [items EXCEPT ![k] = r.field]
         IN IF r.err # NoError
            THEN [field |-> TupleOf(checked), err |-> r.err,
                  warnings |-> warned \cup r.warnings]
            ELSE CheckFieldsFrom(checked, field_attributes, k + 1,
                                 warned \cup r.warnings)

AllDataArrays(v) ==
    /\ v.kind = "tuple"
    /\ \A k \in 1..Len(v.items) : IsDataArray(v.items[k])

\* Mutant: the else branch that rejects other return types is missing.
CheckFieldAnyType(derived_field, derived_field_attributes) ==
    IF IsDataArray(derived_field)
    THEN CheckAttributes(derived_field, derived_field_attributes)
    ELSE IF AllDataArrays(derived_field)
    THEN CheckFieldsFrom(derived_field.items, derived_field_attributes, 1, {})
    ELSE [field |-> derived_field, err |-> NoError, warnings |-> {}]

\* _check_field(derived_field, derived_field_attributes)
CheckField(derived_field, derived_field_attributes) ==
    IF IsDataArray(derived_field)
    THEN CheckAttributes(derived_field, derived_field_attributes)
    ELSE IF AllDataArrays(derived_field)
    THEN CheckFieldsFrom(derived_field.items, derived_field_attributes, 1, {})
    ELSE [field |-> derived_field,
          err |-> Raise("TypeError", "_check_field", <<derived_field.kind>>),
          warnings |-> {}]

\* ---------------------------------------------------------------- chunking
\* memory_limit_check = 1 * 1024**3
MemoryLimit == 1073741824

RECURSIVE Product(_, _)
Product(f, keys) ==
    IF keys = {} THEN 1
    ELSE LET k == CHOOSE x \in keys : TRUE
         IN f[k] * Product(f, keys \ {k})

\* total_size * bytes_per_element of one data variable: the inner loop of
\* _chunk_dataset multiplies the chunk sizes of every dimension of chunks.
MemoryUsage(d, var_name, plan) ==
    Product(plan, DOMAIN plan) * d.vars[var_name].itemsize

ChunkWarning(var_name) ==
    [kind |-> "chunk size", attribute |-> "", name |-> var_name,
     old |-> "", new |-> ""]

\* ds.chunk(chunks) raises for a dimension the dataset does not have and for
\* a chunk size that is neither positive nor -1 (the whole dimension).
ChunkFails(d, plan) ==
    \E dim \in DOMAIN plan :
        dim \notin DOMAIN d.sizes \/ plan[dim] = 0 \/ plan[dim] < -1

ApplyChunks(d, plan) ==
    [d EXCEPT !.vars = [n \in DOMAIN d.vars |->
        [d.vars[n] EXCEPT !.chunks =
            [dim \in d.vars[n].dims |->
                IF plan[dim] = -1 \/ plan[dim] > d.sizes[dim]
                THEN d.sizes[dim] ELSE plan[dim]]]]]

\* _chunk_dataset(ds, chunks): the chunked dataset, or the exception; whether
\* ds.chunk was reached; the warnings logged by the size check.
ChunkDataset(d, plan) ==
    LET missing == {dim \in DOMAIN plan : dim \notin DOMAIN d.sizes}
        large == {v \in DataVars(d) : MemoryUsage(d, v, plan) > MemoryLimit}
    IN IF DataVars(d) # {} /\ missing # {}
       THEN [ds |-> d, attempted |-> FALSE, warnings |-> {},
             err |-> Raise("KeyError", "_chunk_dataset",
                           <<CHOOSE dim \in missing : TRUE>>)]
       ELSE IF ChunkFails(d, plan)
       THEN [ds |-> d, attempted |-> TRUE,
             warnings |-> {ChunkWarning(v) : v \in large},
             err |-> Raise("Exception", "_chunk_dataset",
                           <<"Error chunking dataset">>)]
       ELSE [ds |-> ApplyChunks(d, plan), attempted |-> TRUE,
             warnings |-> {ChunkWarning(v) : v \in large}, err |-> NoError]

\* ------------------------------------------------------------ the inputs
Binding(key, val) == [key |-> key, val |-> val]
KwargsTime == <<Binding("time", "time")>>
KwargsLatLonTime ==
    <<Binding("time", "time"), Binding("lat", "lat"), Binding("lon", "lon")>>

DerivedVariable(name, function, kwargs, attributes) ==
    [name |-> name, function |-> function, kwargs |-> kwargs,
     attributes |-> attributes]

ConfigAttrs == [a \in AttrSet |-> IF a = "units" THEN "degC" ELSE "configured"]

\* The entries a derived_variables section may hold: its key, the function
\* reference, the kwargs the function takes and the attributes section.
Catalogue ==
    {DerivedVariable("toa_radiation", <<"calculate_toa_radiation">>,
                     KwargsLatLonTime, a) : a \in {NoAttrs, ConfigAttrs}}
    \cup {DerivedVariable("hour_of_day", <<"calculate_hour_of_day">>,
                     KwargsTime, a) : a \in {NoAttrs, ConfigAttrs}}
    \cup {DerivedVariable("hour_of_day_ns",
                     CallingModule \o <<"calculate_hour_of_day">>,
                     KwargsTime, NoAttrs)}
    \cup {DerivedVariable("ext_var", ExternalModule \o <<"fn_named">>,
                     KwargsTime, a) : a \in {NoAttrs, ConfigAttrs}}
    \cup {DerivedVariable(f, ExternalModule \o <<f>>, KwargsTime, NoAttrs) :
            f \in {"fn_list", "fn_float", "fn_mixed", "missing"}}
    \cup {DerivedVariable("unknown", <<"no_such_fn">>, KwargsTime, NoAttrs),
          DerivedVariable("unknown_ns", CallingModule \o <<"no_such_fn">>,
                          KwargsTime, NoAttrs),
          DerivedVariable("not_real", <<"not", "a", "real", "module", "fn">>,
                          KwargsTime, NoAttrs)}

\* derived_variables is a dict: its keys are distinct.
SpecLists ==
    UNION {{l \in [1..n -> Catalogue] :
                \A j, k \in 1..n : j # k => l[j].name # l[k].name} :
           n \in 0..MaxSpecs}

\* The chunking argument: empty, a size for time with a dimension the
\* dataset does not have, a dimension of ds that a subset may lack, and a
\* size no array can be chunked by.
ChunkingChoices ==
    {EmptyMap,
     [dim \in {"time", "y"} |-> 1],
     [dim \in {"time", "x"} |-> IF dim = "time" THEN 2 ELSE 1],
     [dim \in {"time"} |-> 0]}

\* sys.modules when derive_variables is first called: the engine's module
\* and the modules it imports.
BaseModules == {CallingModule, <<"numpy">>, <<"xarray">>}

\* ------------------------------------------------------------- the state
VARIABLES
    derived_variables,  \* the DerivedVariable objects, in declaration order
    chunking,           \* the chunking argument
    sys_modules,        \* sys.modules of the process
    call,               \* 1 or 2: which call of derive_variables is running
    pc,                 \* where the call is
    i,                  \* position in derived_variables of the loop
    ds_derived_vars,    \* the output dataset being built
    ds_input, chunks, required_coordinates, latlon_coords_to_include,
    kwargs, func, derived_field,   \* locals of the loop body
    err,                \* the exception that ended the call
    warnings,           \* what the call logged as warnings
    chunk_attempts,     \* positions whose subset reached ds.chunk
    returned,           \* what func returned, per position, in this call
    first_result,       \* how the first call ended
    given,              \* derived_variables as first handed in
    attr_in             \* the field handed to _check_attributes alone

vars ==
    <<derived_variables, chunking, sys_modules, call, pc, i, ds_derived_vars,
      ds_input, chunks, required_coordinates, latlon_coords_to_include,
      kwargs, func, derived_field, err, warnings, chunk_attempts, returned,
      first_result, given, attr_in>>

NoDataset == [sizes |-> EmptyMap, attrs |-> "", vars |-> EmptyMap]
NoValue == Other("NoneType")
NoResult == [ended |-> "", err |-> NoError, ds |-> NoDataset]

\* xr.Dataset() with ds.attrs copied in
NewOutput == [attrs |-> Ds.attrs, data_vars |-> EmptyMap, coords |-> EmptyMap]

\* The locals before the loop body has set them.
LocalsCleared ==
    /\ ds_input' = NoDataset
    /\ chunks' = EmptyMap
    /\ required_coordinates' = <<>>
    /\ latlon_coords_to_include' = <<>>
    /\ kwargs' = EmptyMap
    /\ func' = NonePy
    /\ derived_field' = NoValue

Init ==
    /\ derived_variables \in SpecLists
    /\ chunking \in ChunkingChoices
    /\ sys_modules = BaseModules
    /\ call = 1
    /\ pc = "loop"
    /\ i = 1
    /\ ds_derived_vars = NewOutput
    /\ ds_input = NoDataset
    /\ chunks = EmptyMap
    /\ required_coordinates = <<>>
    /\ latlon_coords_to_include = <<>>
    /\ kwargs = EmptyMap
    /\ func = NonePy
    /\ derived_field = NoValue
    /\ err = NoError
    /\ warnings = {}
    /\ chunk_attempts = {}
    /\ returned = <<>>
    /\ first_result = NoResult
    /\ given = derived_variables
    /\ attr_in = NoValue

\* --------------------------------------------------------- derive_variables
\* Mutant: the exception is recorded and the loop goes on to the next
\* derived variable.
RaisedAndSkipped(e) ==
    /\ err' = e
    /\ pc' = "reattach"

Raised(e) ==
    /\ err' = e
    /\ pc' = "error"

RECURSIVE SelectBindings(_, _)
\* The bindings of a kwargs dict whose key is (keep) or is not among
\* "lat" and "lon", in the dict's order.
SelectBindings(bindings, keep) ==
    IF bindings = <<>> THEN <<>>
    ELSE LET rest == SelectBindings(Tail(bindings), keep)
         IN IF (Head(bindings).key \in {"lat", "lon"}) = keep
            THEN <<Head(bindings)>> \o rest
            ELSE rest

RECURSIVE CoordinatesAmong(_, _)
\* [req_var for req_var in required_kwargs.keys() if req_var in ds.coords]
CoordinatesAmong(bindings, d) ==
    IF bindings = <<>> THEN <<>>
    ELSE LET rest == CoordinatesAmong(Tail(bindings), d)
         IN IF Head(bindings).key \in Coords(d)
            THEN <<Head(bindings).key>> \o rest
            ELSE rest

\* Mutant: every size of the plan is brought into 1..size of its dimension.
ChunkPlanClamped(d, override) ==
    [dim \in Dims(d) |->
        LET size == Get(override, dim, Count(d, dim))
        IN IF size < 1 THEN 1
           ELSE IF size > d.sizes[dim] THEN d.sizes[dim]
           ELSE size]

\* chunks = {dim: chunking.get(dim, int(ds_input[dim].count()))
\*           for dim in ds_input.dims}
ChunkPlan(d, override) ==
    [dim \in Dims(d) |-> Get(override, dim, Count(d, dim))]

\* drop_indexes(required_coordinates, errors="ignore"), then reset_coords for
\* each required coordinate that is a key of chunks.
Demote(d, coordinates, plan) ==
    [d EXCEPT !.vars = [n \in DOMAIN d.vars |->
        IF n \in Range(coordinates)
        THEN [d.vars[n] EXCEPT
                !.indexed = FALSE,
                !.role = IF n \in DOMAIN plan THEN "data" ELSE @]
        ELSE d.vars[n]]]

\* Lines 35-60: split lat/lon off the spec's own kwargs dict (pop), subset
\* the dataset, plan the chunks, turn the required coordinates into variables.
Prepare ==
    /\ pc = "loop"
    /\ i <= Len(derived_variables)
    /\ LET required_kwargs ==
               SelectBindings(derived_variables[i].kwargs, FALSE)
           keys == {required_kwargs[k].key : k \in DOMAIN required_kwargs}
           subset == Subset(Ds, keys)
           plan == ChunkPlan(subset, chunking)
           coordinates == CoordinatesAmong(required_kwargs, subset)
       IN /\ latlon_coords_to_include' =
                SelectBindings(derived_variables[i].kwargs, TRUE)
          /\ derived_variables' =
                [derived_variables EXCEPT ![i].kwargs = required_kwargs]
          /\ IF keys \subseteq DOMAIN Ds.vars
             THEN /\ ds_input' = Demote(subset, coordinates, plan)
                  /\ chunks' = plan
                  /\ required_coordinates' = coordinates
                  /\ pc' = "chunk"
                  /\ err' = err
             ELSE /\ Raised(Raise("KeyError", "derive_variables", <<"ds">>))
                  /\ UNCHANGED <<ds_input, chunks, required_coordinates>>
    /\ UNCHANGED <<chunking, sys_modules, call, i, ds_derived_vars, kwargs,
                   func, derived_field, warnings, chunk_attempts, returned,
                   first_result, given, attr_in>>

\* Line 63: ds_input = _chunk_dataset(ds_input, chunks)
Chunk ==
    /\ pc = "chunk"
    /\ LET r == ChunkDataset(ds_input, chunks)
       IN /\ warnings' = warnings \cup r.warnings
          /\ chunk_attempts' =
                IF r.attempted THEN chunk_attempts \cup {i} ELSE chunk_attempts
          /\ ds_input' = r.ds
          /\ IF r.err = NoError
             THEN pc' = "resolve" /\ err' = err
             ELSE Raised(r.err)
    /\ UNCHANGED <<derived_variables, chunking, sys_modules, call, i,
                   ds_derived_vars, chunks, required_coordinates,
                   latlon_coords_to_include, kwargs, func, derived_field,
                   returned, first_result, given, attr_in>>

\* get_latlon_coords_for_input(ds): ds[["lat", "lon"]].chunk(-1, -1)
LatLonCoords ==
    LET d == Subset(Ds, {"lat", "lon"})
    IN ApplyChunks(d, [dim \in Dims(d) |-> -1])

RECURSIVE BindAll(_, _, _)
\* kwargs[val] = source[key] for each binding, in order
BindAll(bindings, source, bound) ==
    IF bindings = <<>> THEN bound
    ELSE BindAll(Tail(bindings), source,
                 Put(bound, Head(bindings).val, source.vars[Head(bindings).key]))

\* Lines 66-72: assemble kwargs and resolve the function.
Resolve ==
    /\ pc = "resolve"
    /\ LET latlon_bound ==
               IF Len(latlon_coords_to_include) > 0
               THEN BindAll(latlon_coords_to_include, LatLonCoords, EmptyMap)
               ELSE EmptyMap
           r == GetDerivedVariableFunction(derived_variables[i].function,
                                           sys_modules)
       IN /\ kwargs' = BindAll(derived_variables[i].kwargs, ds_input,
                               latlon_bound)
          /\ sys_modules' = r.sys_modules
          /\ func' = r.function
          /\ IF r.err = NoError
             THEN pc' = "invoke" /\ err' = err
             ELSE Raised(r.err)
    /\ UNCHANGED <<derived_variables, chunking, call, i, ds_derived_vars,
                   ds_input, chunks, required_coordinates,
                   latlon_coords_to_include, derived_field, warnings,
                   chunk_attempts, returned, first_result, given, attr_in>>

\* Line 74: derived_field = func(**kwargs)
Call ==
    /\ pc = "invoke"
    /\ LET r == Invoke(func, kwargs)
       IN IF r.err = NoError
          THEN /\ derived_field' = r.value
               /\ returned' = Append(returned, r.value)
               /\ pc' = "check"
               /\ err' = err
          ELSE /\ Raised(r.err)
               /\ UNCHANGED <<derived_field, returned>>
    /\ UNCHANGED <<derived_variables, chunking, sys_modules, call, i,
                   ds_derived_vars, ds_input, chunks, required_coordinates,
                   latlon_coords_to_include, kwargs, func, warnings,
                   chunk_attempts, first_result, given, attr_in>>

\* Line 77: derived_field = _check_field(derived_field, attributes)
Check ==
    /\ pc = "check"
    /\ LET r == CheckField(derived_field, derived_variables[i].attributes)
       IN /\ warnings' = warnings \cup r.warnings
          /\ derived_field' = r.field
          /\ IF r.err = NoError
             THEN pc' = "merge" /\ err' = err
             ELSE Raised(r.err)
    /\ UNCHANGED <<derived_variables, chunking, sys_modules, call, i,
                   ds_derived_vars, ds_input, chunks, required_coordinates,
                   latlon_coords_to_include, kwargs, func, chunk_attempts,
                   returned, first_result, given, attr_in>>

\* Mutant: only the first field of a tuple is added.
AddFirstField(data_vars, items) ==
    IF items = <<>> THEN data_vars
    ELSE Put(data_vars, Head(items).name, Head(items))

\* Mutant: a field is stored under its long_name attribute.
AddFieldsByLongName(data_vars, items) ==
    [n \in DOMAIN data_vars
           \cup {items[k].attrs["long_name"] : k \in 1..Len(items)} |->
        IF \E k \in 1..Len(items) : items[k].attrs["long_name"] = n
        THEN items[CHOOSE k \in 1..Len(items) :
                      items[k].attrs["long_name"] = n]
        ELSE data_vars[n]]

RECURSIVE AddFieldsKeepFirst(_, _)
\* Mutant: a field whose name the dataset already holds is not stored.
AddFieldsKeepFirst(data_vars, items) ==
    IF items = <<>> THEN data_vars
    ELSE AddFieldsKeepFirst(
             IF Head(items).name \in DOMAIN data_vars THEN data_vars
             ELSE Put(data_vars, Head(items).name, Head(items)),
             Tail(items))

RECURSIVE AddFields(_, _)
\* for field in derived_field: ds_derived_vars[field.name] = field
AddFields(data_vars, items) ==
    IF items = <<>> THEN data_vars
    ELSE AddFields(Put(data_vars, Head(items).name, Head(items)), Tail(items))

\* Lines 80-91: add the derived field(s) to the output dataset.
Merge ==
    /\ pc = "merge"
    /\ IF IsDataArray(derived_field)
       THEN /\ ds_derived_vars' =
                 [ds_derived_vars EXCEPT
                    !.data_vars = AddFields(@, <<derived_field>>)]
            /\ pc' = "reattach"
            /\ err' = err
       ELSE IF AllDataArrays(derived_field)
       THEN /\ ds_derived_vars' =
                 [ds_derived_vars EXCEPT
                    !.data_vars = AddFields(@, derived_field.items)]
            /\ pc' = "reattach"
            /\ err' = err
       ELSE /\ Raised(Raise("TypeError", "derive_variables",
                            <<derived_field.kind>>))
            /\ UNCHANGED ds_derived_vars
    /\ UNCHANGED <<derived_variables, chunking, sys_modules, call, i,
                   ds_input, chunks, required_coordinates,
                   latlon_coords_to_include, kwargs, func, derived_field,
                   warnings, chunk_attempts, returned, first_result, given,
                   attr_in>>

Without(m, k) == [n \in DOMAIN m \ {k} |-> m[n]]

RECURSIVE ReturnEveryRequired(_, _, _, _)
\* Mutant: every required coordinate is put back, whether or not it is a
\* key of chunks.
ReturnEveryRequired(out, d, coordinates, plan) ==
    IF coordinates = <<>> THEN out
    ELSE LET req_coord == Head(coordinates)
             next == [out EXCEPT
                        !.coords = Put(@, req_coord, d.vars[req_coord]),
                        !.data_vars = Without(@, req_coord)]
         IN ReturnEveryRequired(next, d, Tail(coordinates), plan)

RECURSIVE ReturnDroppedCoordinates(_, _, _, _)
\* _return_dropped_coordinates(ds_derived_vars, ds_input,
\*                             required_coordinates, chunks)
ReturnDroppedCoordinates(out, d, coordinates, plan) ==
    IF coordinates = <<>> THEN out
    ELSE LET req_coord == Head(coordinates)
             next == IF req_coord \in DOMAIN plan
                     THEN [out EXCEPT
                             !.coords = Put(@, req_coord, d.vars[req_coord]),
                             !.data_vars = Without(@, req_coord)]
                     ELSE out
         IN ReturnDroppedCoordinates(next, d, Tail(coordinates), plan)

\* Lines 94-96, and on to the next derived variable.
Reattach ==
    /\ pc = "reattach"
    /\ ds_derived_vars' = ReturnDroppedCoordinates(ds_derived_vars, ds_input,
                                                   required_coordinates, chunks)
    /\ i' = i + 1
    /\ pc' = "loop"
    /\ UNCHANGED <<derived_variables, chunking, sys_modules, call, ds_input,
                   chunks, required_coordinates, latlon_coords_to_include,
                   kwargs, func, derived_field, err, warnings, chunk_attempts,
                   returned, first_result, given, attr_in>>

\* Line 98: return ds_derived_vars
Return ==
    /\ pc = "loop"
    /\ i > Len(derived_variables)
    /\ pc' = "done"
    /\ UNCHANGED <<derived_variables, chunking, sys_modules, call, i,
                   ds_derived_vars, ds_input, chunks, required_coordinates,
                   latlon_coords_to_include, kwargs, func, derived_field, err,
                   warnings, chunk_attempts, returned, first_result, given,
                   attr_in>>

\* How a call ended: the dataset it returned, or the exception it raised.
Result ==
    IF pc = "done"
    THEN [ended |-> "returned", err |-> NoError, ds |-> ds_derived_vars]
    ELSE [ended |-> "raised", err |-> err, ds |-> NoDataset]

\* derive_variables is called again in the same process with the same
\* dataset, the same DerivedVariable objects and the same chunking.
CallAgain ==
    /\ pc \in {"done", "error"}
    /\ call = 1
    /\ call' = 2
    /\ first_result' = Result
    /\ pc' = "loop"
    /\ i' = 1
    /\ ds_derived_vars' = NewOutput
    /\ err' = NoError
    /\ warnings' = {}
    /\ chunk_attempts' = {}
    /\ returned' = <<>>
    /\ LocalsCleared
    /\ UNCHANGED <<derived_variables, chunking, sys_modules, given, attr_in>>

Next ==
    \/ Prepare
    \/ Chunk
    \/ Resolve
    \/ Call
    \/ Check
    \/ Merge
    \/ Reattach
    \/ Return
    \/ CallAgain

Spec == Init /\ [][Next]_vars

\* ------------------------------- derive_variables with chunking overrides
MaxChunkedSpecs == 3

\* kwargs that bind a data variable next to its dimension coordinate, and a
\* coordinate that is no dimension.
KwargsTimeField == <<Binding("time", "time"), Binding("t2m", "field")>>
KwargsOrography == <<Binding("orography", "time")>>

\* An attributes section that defines units as null.
NullUnitsAttrs == [a \in AttrSet |-> IF a = "units" THEN None ELSE "configured"]

\* Entries whose subsets differ in dimensions and in required coordinates,
\* whose functions return the same names, one with a null fallback and one
\* with no fallback for an array without attributes.
ChunkedCatalogue ==
    {DerivedVariable("hour_of_day", <<"calculate_hour_of_day">>,
                     KwargsTime, NoAttrs),
     DerivedVariable("hour_of_day_ns",
                     CallingModule \o <<"calculate_hour_of_day">>,
                     KwargsTime, ConfigAttrs),
     DerivedVariable("ext_field", ExternalModule \o <<"fn_field">>,
                     KwargsTimeField, ConfigAttrs),
     DerivedVariable("ext_orog", ExternalModule \o <<"fn_named">>,
                     KwargsOrography, ConfigAttrs),
     DerivedVariable("ext_twins", ExternalModule \o <<"fn_twins">>,
                     KwargsTime, NoAttrs),
     DerivedVariable("ext_null", ExternalModule \o <<"fn_named">>,
                     KwargsTime, NullUnitsAttrs),
     DerivedVariable("ext_bare", ExternalModule \o <<"fn_named">>,
                     KwargsTime, NoAttrs)}

ChunkedSpecLists ==
    UNION {{l \in [1..n -> ChunkedCatalogue] :
                \A j, k \in 1..n : j # k => l[j].name # l[k].name} :
           n \in 0..MaxChunkedSpecs}

\* The chunking argument: empty; part of the dimensions; zero, negative and
\* larger-than-dimension sizes; sizes that put 8-byte elements over 1 GiB on
\* time alone, and only when multiplied with the size given for x.
OverrideChoices ==
    {EmptyMap,
     [dim \in {"time"} |-> 1],
     [dim \in {"time"} |-> 0],
     [dim \in {"time"} |-> -1],
     [dim \in {"time"} |-> 5],
     [dim \in {"time", "x"} |-> IF dim = "time" THEN 2 ELSE 1],
     [dim \in {"time", "x"} |-> IF dim = "time" THEN 134217729 ELSE 1],
     [dim \in {"time", "x"} |-> IF dim = "time" THEN 67108864 ELSE 3]}

InitChunked ==
    /\ derived_variables \in ChunkedSpecLists
    /\ chunking \in OverrideChoices
    /\ sys_modules = BaseModules
    /\ call = 1
    /\ pc = "loop"
    /\ i = 1
    /\ ds_derived_vars = NewOutput
    /\ ds_input = NoDataset
    /\ chunks = EmptyMap
    /\ required_coordinates = <<>>
    /\ latlon_coords_to_include = <<>>
    /\ kwargs = EmptyMap
    /\ func = NonePy
    /\ derived_field = NoValue
    /\ err = NoError
    /\ warnings = {}
    /\ chunk_attempts = {}
    /\ returned = <<>>
    /\ first_result = NoResult
    /\ given = derived_variables
    /\ attr_in = NoValue

SpecChunked == InitChunked /\ [][Next]_vars

\* -------------------------------------------- _check_attributes on its own
AttrValues(a) ==
    IF a = "units" THEN {Absent, None, "K"} ELSE {Absent, None, "temperature"}
FallbackValues(a) ==
    IF a = "units" THEN {Absent, None, "degC"} ELSE {Absent, None, "configured"}
FieldChoices ==
    {DataArray(n, u, l, "data") :
        n \in {"t2m", "ext_var"}, u \in AttrValues("units"),
        l \in AttrValues("long_name")}
FallbackChoices ==
    {f \in [AttrSet -> UNION {FallbackValues(a) : a \in AttrSet}] :
        \A a \in AttrSet : f[a] \in FallbackValues(a)}

InitAttr ==
    /\ attr_in \in FieldChoices
    /\ derived_variables \in
         {<<DerivedVariable(attr_in.name, <<"external">>, <<>>, f)>> :
             f \in FallbackChoices}
    /\ chunking = EmptyMap
    /\ sys_modules = BaseModules
    /\ call = 1
    /\ pc = "attr"
    /\ i = 1
    /\ ds_derived_vars = NewOutput
    /\ ds_input = NoDataset
    /\ chunks = EmptyMap
    /\ required_coordinates = <<>>
    /\ latlon_coords_to_include = <<>>
    /\ kwargs = EmptyMap
    /\ func = NonePy
    /\ derived_field = NoValue
    /\ err = NoError
    /\ warnings = {}
    /\ chunk_attempts = {}
    /\ returned = <<>>
    /\ first_result = NoResult
    /\ given = derived_variables

\* field = _check_attributes(field, field_attributes)
CheckAttributesAlone ==
    /\ pc = "attr"
    /\ LET r == CheckAttributes(attr_in, derived_variables[1].attributes)
       IN /\ derived_field' = r.field
          /\ err' = r.err
          /\ warnings' = r.warnings
          /\ pc' = "attr_done"
    /\ UNCHANGED <<derived_variables, chunking, sys_modules, call, i,
                   ds_derived_vars, ds_input, chunks, required_coordinates,
                   latlon_coords_to_include, kwargs, func, chunk_attempts,
                   returned, first_result, given, attr_in>>

NextAttr == CheckAttributesAlone

SpecAttr == InitAttr /\ [][NextAttr]_vars

\* ============================================================== the claims
\* The spec's error kinds, by the exception the code raises for each.
UnresolvedFunctionError(e) == e.site = "_get_derived_variable_function"
DimensionNotFoundError(e) == e.exc = "KeyError" /\ e.site = "_chunk_dataset"
InvalidDerivedFieldError(e) == e.exc = "TypeError" /\ e.site = "_check_field"
MissingAttributeError(e) ==
    e.exc = "ValueError" /\ e.site = "_check_attributes"

CallEnded == pc \in {"done", "error"}
\* The loop body of position i is past the named step.
PastChunk == pc \in {"resolve", "invoke", "check", "merge", "reattach"}
PastResolve == pc \in {"invoke", "check", "merge", "reattach"}

\* The arrays among a returned value.
ArraysIn(v) ==
    IF IsDataArray(v) THEN {v}
    ELSE IF v.kind = "tuple"
    THEN {v.items[k] : k \in {j \in 1..Len(v.items) : IsDataArray(v.items[j])}}
    ELSE {}
NamesIn(v) == {a.name : a \in ArraysIn(v)}
ReturnedNames == UNION {NamesIn(returned[k]) : k \in 1..Len(returned)}
ValidReturn(v) == IsDataArray(v) \/ AllDataArrays(v)
OutputNames == DOMAIN ds_derived_vars.data_vars

\* C1: a second call of derive_variables with the same dataset, spec objects
\* and chunking succeeds whenever the first did and returns the same dataset.
C1_SecondCallSame ==
    (call = 2 /\ CallEnded /\ first_result.ended = "returned")
        => Result = first_result

Fallback == derived_variables[1].attributes
Missing(a) == attr_in.attrs[a] \in {Absent, None}
Unset == {a \in AttrSet : Missing(a) /\ Fallback[a] = Absent}
RuleValue(a) == IF Fallback[a] # Absent THEN Fallback[a] ELSE attr_in.attrs[a]
Replaced == {a \in AttrSet : ~Missing(a) /\ Fallback[a] # Absent}

\* C4: per attribute of {units, long_name}: the fallback value when the
\* attributes section defines one (with a warning when it replaces a non-null
\* value), else the field's own non-null value unchanged, else the check
\* fails with MissingAttributeError naming that attribute and the array.
C4_AttributeRule ==
    pc = "attr_done" =>
        /\ err = NoError <=> Unset = {}
        /\ Unset # {} =>
              /\ MissingAttributeError(err)
              /\ err.subject[1] \in Unset
              /\ err.subject[2] = attr_in.name
              /\ \A a \in AttrSet \ Unset :
                    a = "units" => derived_field.attrs[a] = RuleValue(a)
              /\ warnings \subseteq
                    {OverwriteWarning(a, attr_in.name, attr_in.attrs[a],
                                      Fallback[a]) : a \in Replaced}
        /\ Unset = {} =>
              /\ \A a \in AttrSet : derived_field.attrs[a] = RuleValue(a)
              /\ warnings =
                    {OverwriteWarning(a, attr_in.name, attr_in.attrs[a],
                                      Fallback[a]) : a \in Replaced}
        /\ derived_field.name = attr_in.name
        /\ derived_field.data = attr_in.data
C4_Witness ==
    /\ pc = "attr_done"
    /\ attr_in.attrs["units"] = "K"
    /\ Fallback["units"] = "degC"
    /\ derived_field.attrs["units"] = "degC"
    /\ attr_in.attrs["long_name"] = "temperature"
    /\ Fallback["long_name"] = Absent
    /\ derived_field.attrs["long_name"] = "temperature"
    /\ Cardinality(warnings) = 1

\* The reference of the derived variable the loop is at, split as the
\* resolver splits it.
Reference == derived_variables[i].function
ModulePath == SubSeq(Reference, 1, Len(Reference) - 1)
LeafName == Reference[Len(Reference)]
\* The resolver has run for position i: it returned, or it raised.
Resolved == PastResolve \/ (pc = "error" /\ UnresolvedFunctionError(err))
ExternalReference ==
    /\ Len(Reference) > 1
    /\ ModulePath # CallingModule
    /\ ModulePath \in Importable
    /\ LeafName \in ExternalFunctions
\* The reference names a function: a built-in, or one an importable module
\* defines.
ResolvesToFunction ==
    \/ ExternalReference
    \/ /\ Len(Reference) = 1 \/ ModulePath = CallingModule
       /\ LeafName \in GlobalFunctions

\* C5: a reference into a loadable external module that defines the leaf
\* resolves to that module's attribute, on the module's first load and when
\* the module was loaded earlier in the process.
C5_ExternalResolves ==
    (Resolved /\ ExternalReference)
        => (PastResolve /\ func = Function(ModulePath, LeafName))

\* C6: the resolver fails with UnresolvedFunctionError for every reference
\* that does not resolve to a function and never returns a non-callable.
C6_UnresolvedFails ==
    /\ PastResolve => Callable(func)
    /\ (Resolved /\ ~ResolvesToFunction) =>
          (pc = "error" /\ UnresolvedFunctionError(err))

\* C7: an override naming a dimension absent from the spec's input subset
\* fails with DimensionNotFoundError before ds.chunk is attempted.
C7_AbsentDimensionFails ==
    \A dim \in DOMAIN chunking :
        (dim \notin DOMAIN ds_input.sizes
            /\ (PastChunk \/ i \in chunk_attempts
                  \/ (pc = "error" /\ err.site = "_chunk_dataset")))
        => /\ pc = "error"
           /\ DimensionNotFoundError(err)
           /\ i \notin chunk_attempts

\* C8: a return value that is neither an array nor a tuple of arrays ends
\* the call in InvalidDerivedFieldError reporting its type, and none of its
\* arrays is merged into the output dataset.
C8_InvalidReturnFails ==
    \A k \in 1..Len(returned) :
        ~ValidReturn(returned[k]) =>
            /\ k = i
            /\ \/ pc = "check"
               \/ /\ pc = "error"
                  /\ InvalidDerivedFieldError(err)
                  /\ err.subject = <<returned[k].kind>>
            /\ \A n \in OutputNames : \A a \in ArraysIn(returned[k]) :
                  ds_derived_vars.data_vars[n].data # a.data
C8_Witness ==
    /\ pc = "error"
    /\ InvalidDerivedFieldError(err)
    /\ returned[i].kind = "tuple"
    /\ ArraysIn(returned[i]) # {}
    /\ OutputNames # {}

\* C9: a failure at any derived variable ends the whole call in that error:
\* no dataset is returned, although earlier ones were merged, and no later
\* derived variable is processed.
C9_NoPartialSuccess ==
    /\ err # NoError <=> pc = "error"
    /\ pc = "error" =>
          /\ Result.ended = "raised"
          /\ Result.err = err
          /\ Result.ds = NoDataset
          /\ i <= Len(derived_variables)
          /\ Len(returned) <= i
          /\ chunk_attempts \subseteq 1..i
          /\ ~ENABLED (Prepare \/ Chunk \/ Resolve \/ Call \/ Check \/ Merge
                         \/ Reattach \/ Return)
    /\ pc = "done" =>
          /\ Result.ended = "returned"
          /\ Len(returned) = Len(derived_variables)
          /\ \A k \in 1..Len(returned) : ValidReturn(returned[k])
C9_Witness ==
    /\ pc = "error"
    /\ i = 2
    /\ Len(derived_variables) = 3
    /\ OutputNames # {}

\* C10: the call leaves every DerivedVariable as it was handed in: kwargs
\* (the "lat" and "lon" entries included), function and attributes.
C10_SpecsReadOnly == CallEnded => derived_variables = given

\* ---- C11
\* The source names a spec requires (its kwargs keys other than lat and lon).
RequiredKeys(k) ==
    {given[k].kwargs[b].key : b \in DOMAIN given[k].kwargs} \ {"lat", "lon"}
\* The coordinates demoted for spec k: the required names that are coordinates
\* of the dataset and are a dimension of one of the required variables.
DemotedOf(k) ==
    {c \in RequiredKeys(k) :
        /\ Ds.vars[c].role = "coord"
        /\ c \in UNION {Ds.vars[n].dims : n \in RequiredKeys(k)}}
InLoopBody == pc \in {"chunk", "resolve", "invoke", "check", "merge", "reattach"}
OutputCoords == DOMAIN ds_derived_vars.coords

\* C11: inside the loop body the coordinates of the input subset that were
\* turned into variables are exactly the required coordinates of the current
\* spec that are in the chunk plan; the coordinates of the output dataset are
\* exactly those demoted for the specs already completed (so the current
\* spec's are put back after its arrays were merged and before the next spec
\* starts), and each holds the values of the input dataset's coordinate.
C11_DemotedReattached ==
    /\ InLoopBody =>
         {n \in DOMAIN ds_input.vars :
              Ds.vars[n].role = "coord" /\ ds_input.vars[n].role = "data"}
            = DemotedOf(i)
    /\ OutputCoords = UNION {DemotedOf(k) : k \in 1..(i - 1)}
    /\ pc = "reattach" => NamesIn(returned[i]) \subseteq OutputNames
    /\ \A c \in OutputCoords :
         /\ ds_derived_vars.coords[c].values = Ds.vars[c].values
         /\ ds_derived_vars.coords[c].dims = Ds.vars[c].dims
         /\ c \notin OutputNames

\* The first spec requires a coordinate that is not in its chunk plan, the
\* second one demotes time, and both have been completed.
C11_Witness ==
    /\ pc = "loop"
    /\ i = 3
    /\ RequiredKeys(1) = {"orography"}
    /\ DemotedOf(1) = {}
    /\ DemotedOf(2) = {"time"}
    /\ OutputCoords = {"time"}

\* ---- C12
\* The dimensions of the input subset of spec k.
SubsetDims(k) == UNION {Ds.vars[n].dims : n \in RequiredKeys(k)}

OwnEstimate(var_name) ==
    Product(chunks, ds_input.vars[var_name].dims)
        * ds_input.vars[var_name].itemsize
ChunkWarned == {w.name : w \in {x \in warnings : x.kind = "chunk size"}}

\* C13: once the first spec's subset has been chunked, the variables a
\* chunk-size warning names are exactly the data variables of the subset
\* whose estimate over their own dimensions exceeds 1 GiB; and processing
\* went on.
C13_WarningByOwnDimensions ==
    (PastChunk /\ i = 1) =>
        ChunkWarned = {v \in DataVars(ds_input) : OwnEstimate(v) > MemoryLimit}

\* ---- C14
\* C14: every data variable of the dataset derive_variables returns carries a
\* non-null units and a non-null long_name.
C14_OutputAttributesSet ==
    pc = "done" =>
        \A n \in OutputNames : \A a \in AttrSet :
            ds_derived_vars.data_vars[n].attrs[a] \notin {Absent, None}

\* ---- C15
Max(S) == CHOOSE m \in S : \A n \in S : n <= m
\* The array as it is merged for spec k: the returned array with the
\* attributes the spec's attributes section defines.
MergedArray(k, a) ==
    [a EXCEPT !.attrs = [x \in AttrSet |->
        IF given[k].attributes[x] # Absent THEN given[k].attributes[x]
        ELSE a.attrs[x]]]
\* The array of name n merged last: the last element of that name returned
\* for the last spec that returned one.
LastMerged(n) ==
    LET k == Max({j \in 1..Len(returned) : n \in NamesIn(returned[j])})
        v == returned[k]
    IN MergedArray(k,
         IF IsDataArray(v) THEN v
         ELSE v.items[Max({j \in 1..Len(v.items) : v.items[j].name = n})])

\* C15: once valid arrays were returned for a spec the only failure left is
\* a missing attribute, never a name already in the output dataset; and the
\* dataset returned holds, under each name, the array merged last.
C15_LastWriteWins ==
    /\ (pc = "error" /\ Len(returned) = i /\ ValidReturn(returned[i]))
          => MissingAttributeError(err)
    /\ pc = "done" =>
          \A n \in OutputNames : ds_derived_vars.data_vars[n] = LastMerged(n)

\* The first two specs returned arrays of the same names that differ once
\* merged, the third a tuple of two different arrays of one name; the dataset
\* returned holds the second spec's arrays and the tuple's second element.
C15_Witness ==
    /\ pc = "done"
    /\ Len(returned) = 3
    /\ NamesIn(returned[1]) # {}
    /\ NamesIn(returned[1]) = NamesIn(returned[2])
    /\ \A a1 \in ArraysIn(returned[1]) : \A a2 \in ArraysIn(returned[2]) :
          a1.name = a2.name =>
             /\ MergedArray(1, a1) # MergedArray(2, a2)
             /\ ds_derived_vars.data_vars[a2.name] = MergedArray(2, a2)
    /\ returned[3].kind = "tuple"
    /\ Len(returned[3].items) = 2
    /\ returned[3].items[1].name = returned[3].items[2].name
    /\ returned[3].items[1] # returned[3].items[2]
    /\ ds_derived_vars.data_vars[returned[3].items[2].name]
          = MergedArray(3, returned[3].items[2])

====
